---- MODULE Spec2Model ----
(***************************************************************************)
(* Model of arguments.py: the command-line token classifier Simple and    *)
(* its query methods, the module-level wrappers, and the self-test        *)
(* check_arguments.                                                       *)
(*                                                                         *)
(* A Python string is a sequence of one-character strings; None is the    *)
(* one-element sequence <<"None">>, which is no Python string because     *)
(* "None" is not a character.                                             *)
(***************************************************************************)
EXTENDS Integers, Sequences, FiniteSets, TLC

VARIABLES argv, arguments, command, flags, options, positional, pc, i, test, result

vars == <<argv, arguments, command, flags, options, positional, pc, i, test, result>>

collections == <<command, flags, options, positional>>

----
(* Bounds of the explored inputs. *)

\* most characters of the argument part of a command line: the characters of
\* all argument tokens plus one separator between neighbouring tokens
MaxLine == 5
\* most names passed to has_any / has_all
MaxNames == 2
\* largest index passed to get_index, and minus the smallest
MaxIndex == 3
\* most positional arguments, and most flags, handed to check_arguments
MaxTest == 2

----
(* Characters and strings. *)

None == <<"None">>

\* \w of Python 2's re (no flags): [a-zA-Z0-9_], cut to the letters explored
Word == {"a", "b"}
\* whitespace, the complement of \S
Space == {" "}
\* the characters the explored argument tokens are made of
Chars == {"-", "="} \cup Word
NonSpace == Chars \ Space

Str(s) == <<s>>

\* number of consecutive characters of s from position k on that are in class C
RECURSIVE RunLen(_, _, _)
RunLen(s, k, C) ==
    IF k <= Len(s) /\ s[k] \in C THEN 1 + RunLen(s, k + 1, C) ELSE 0

NoMatch == [matched |-> FALSE, groups |-> <<>>]

\* re.compile(r"-(\w+)").match(tok): anchored at the start only
flag_pattern(tok) ==
    IF Len(tok) >= 2 /\ tok[1] = "-" /\ tok[2] \in Word
    THEN [matched |-> TRUE,
          groups  |-> << SubSeq(tok, 2, 1 + RunLen(tok, 2, Word)) >>]
    ELSE NoMatch

\* re.compile(r"--(\w+)(?:=(\S+))?").match(tok): anchored at the start only;
\* the second group is None when the optional part does not take part
option_pattern(tok) ==
    IF Len(tok) >= 3 /\ tok[1] = "-" /\ tok[2] = "-" /\ tok[3] \in Word
    THEN LET n == RunLen(tok, 3, Word)
             e == 3 + n
             v == RunLen(tok, e + 1, NonSpace)
         IN [matched |-> TRUE,
             groups  |-> << SubSeq(tok, 3, e - 1),
                            IF e <= Len(tok) /\ tok[e] = "=" /\ v > 0
                            THEN SubSeq(tok, e + 1, e + v)
                            ELSE None >>]
    ELSE NoMatch

----
(* The invocations explored: the argument tokens are the pieces of a      *)
(* line of at most MaxLine symbols, each a character of Chars or the      *)
(* separator that ends a token (the NUL of the process's argument block). *)

NUL == "NUL"

\* the tokens of a line: a new token starts after every separator
RECURSIVE Split(_)
Split(line) ==
    IF \A k \in 1..Len(line) : line[k] # NUL
    THEN <<line>>
    ELSE LET k == CHOOSE j \in 1..Len(line) :
                      line[j] = NUL /\ \A m \in 1..(j - 1) : line[m] # NUL
         IN <<SubSeq(line, 1, k - 1)>> \o Split(SubSeq(line, k + 1, Len(line)))

Lines == UNION { [1..n -> Chars \cup {NUL}] : n \in 0..MaxLine }

\* sys.argv[0]: a bare name, or a path with directories before the name
Commands == { <<"p">>, <<"b", "/", "p">> }

NoTest == [active |-> FALSE]
NoResult == [op |-> "none"]

----
(* Simple.__init__ *)

\* the dictionary d after d[name] = value
SetItem(d, name, value) ==
    [n \in DOMAIN d \cup {name} |-> IF n = name THEN value ELSE d[n]]

EmptyDict == [n \in {} |-> None]

\* lines 42-50: copy sys.argv, pop the command name, empty collections
Begin(av) ==
    /\ arguments' = Tail(av)
    /\ command' = Head(av)
    /\ flags' = <<>>
    /\ options' = EmptyDict
    /\ positional' = <<>>
    /\ i' = 1
    /\ pc' = IF Len(av) > 1 THEN "loop" ELSE "ready"

\* Classify with the second test an "if" of its own, so that its else also
\* takes the tokens the flag pattern matched
ClassifyNoElif ==
    /\ pc = "loop"
    /\ LET argument == arguments[i]
           flag_match == flag_pattern(argument)
           option_match == option_pattern(argument)
       IN /\ flags' = IF flag_match.matched THEN flags \o flag_match.groups ELSE flags
          /\ options' = IF option_match.matched
                        THEN SetItem(options, option_match.groups[1],
                                     option_match.groups[2])
                        ELSE options
          /\ positional' = IF option_match.matched THEN positional
                           ELSE Append(positional, argument)
    /\ i' = i + 1
    /\ pc' = IF i < Len(arguments) THEN "loop" ELSE "ready"
    /\ UNCHANGED <<argv, arguments, command, test, result>>

\* Classify with positional.insert(0, argument) for positional.append(argument)
ClassifyPrepend ==
    /\ pc = "loop"
    /\ LET argument == arguments[i]
           flag_match == flag_pattern(argument)
           option_match == option_pattern(argument)
       IN IF flag_match.matched
          THEN /\ flags' = flags \o flag_match.groups
               /\ UNCHANGED <<options, positional>>
          ELSE IF option_match.matched
          THEN /\ options' = SetItem(options, option_match.groups[1],
                                     option_match.groups[2])
               /\ UNCHANGED <<flags, positional>>
          ELSE /\ positional' = <<argument>> \o positional
               /\ UNCHANGED <<flags, options>>
    /\ i' = i + 1
    /\ pc' = IF i < Len(arguments) THEN "loop" ELSE "ready"
    /\ UNCHANGED <<argv, arguments, command, test, result>>

\* one iteration of the for loop, lines 52-66
Classify ==
    /\ pc = "loop"
    /\ LET argument == arguments[i]
           flag_match == flag_pattern(argument)
           option_match == option_pattern(argument)
       IN IF flag_match.matched
          THEN /\ flags' = flags \o flag_match.groups
               /\ UNCHANGED <<options, positional>>
          ELSE IF option_match.matched
          THEN /\ options' = SetItem(options, option_match.groups[1],
                                     option_match.groups[2])
               /\ UNCHANGED <<flags, positional>>
          ELSE /\ positional' = Append(positional, argument)
               /\ UNCHANGED <<flags, options>>
    /\ i' = i + 1
    /\ pc' = IF i < Len(arguments) THEN "loop" ELSE "ready"
    /\ UNCHANGED <<argv, arguments, command, test, result>>

Init ==
    /\ argv = <<>>
    /\ arguments = <<>>
    /\ command = None
    /\ flags = <<>>
    /\ options = EmptyDict
    /\ positional = <<>>
    /\ i = 1
    /\ pc = "import"
    /\ test = NoTest
    /\ result = NoResult

\* line 117, parser = Simple(), run when the module is loaded: sys.argv is
\* whatever the process was started with, a command name and its arguments
parser ==
    /\ pc = "import"
    /\ \E c \in Commands :
         \/ /\ argv' = <<c>>
            /\ Begin(<<c>>)
         \/ \E line \in Lines :
              /\ argv' = <<c>> \o Split(line)
              /\ Begin(<<c>> \o Split(line))
    /\ UNCHANGED <<test, result>>

----
(* The query methods of Simple, lines 68-115, as functions of the state.  *)
(* A call that raises has an outcome naming the exception and no value.   *)

NoValue == <<"NoValue">>

Return(v) == [outcome |-> "return", value |-> v]
Raise(e) == [outcome |-> e, value |-> NoValue]

\* x in lst, for a Python list
In(x, lst) == \E k \in 1..Len(lst) : lst[k] = x

get_command == command

get_flags == flags

get_positional == positional

has_flag(name) == In(name, flags)

get_flag(name, yes, no) == IF has_flag(name) THEN yes ELSE no

has_option(name) == name \in DOMAIN options

\* the casts explored: the default lambda x: x, and the builtin str
Cast(cast, x) ==
    IF cast = "str" /\ x = None THEN <<"N", "o", "n", "e">> ELSE x

\* get_option without lines 87-88: values never replaces the default
get_option_keep_default(name, default, values, cast) ==
    IF values.supplied /\ values.list = <<>>
    THEN Raise("IndexError")
    ELSE LET option == IF name \in DOMAIN options THEN options[name] ELSE default
             value == Cast(cast, option)
         IN IF values.supplied /\ ~In(value, values.list)
            THEN Raise("AssertionError")
            ELSE Return(value)

\* get_option without lines 93-94: the cast value is returned unchecked
get_option_no_assert(name, default, values, cast) ==
    IF values.supplied /\ values.list = <<>>
    THEN Raise("IndexError")
    ELSE LET default1 == IF values.supplied THEN values.list[1] ELSE default
             option == IF name \in DOMAIN options THEN options[name] ELSE default1
         IN Return(Cast(cast, option))

\* values is [supplied |-> FALSE] for values=None, else carries the list
get_option(name, default, values, cast) ==
    IF values.supplied /\ values.list = <<>>
    THEN Raise("IndexError")
    ELSE LET default1 == IF values.supplied THEN values.list[1] ELSE default
             option == IF name \in DOMAIN options THEN options[name] ELSE default1
             value == Cast(cast, option)
         IN IF values.supplied /\ ~In(value, values.list)
            THEN Raise("AssertionError")
            ELSE Return(value)

get_options == options

\* get_index refusing every negative index
get_index_no_negative(index) ==
    IF index < 0 \/ index >= Len(positional)
    THEN Raise("IndexError")
    ELSE Return(positional[index + 1])

\* list indexing: a negative index counts from the end
get_index(index) ==
    LET n == Len(positional)
        k == IF index < 0 THEN index + n ELSE index
    IN IF k < 0 \/ k >= n THEN Raise("IndexError") ELSE Return(positional[k + 1])

RECURSIVE has_any(_)
has_any(names) ==
    IF names = <<>> THEN FALSE
    ELSE IF has_flag(Head(names)) THEN TRUE
    ELSE IF has_option(Head(names)) THEN TRUE
    ELSE has_any(Tail(names))

\* has_all without the second continue: only flags count
RECURSIVE has_all_flags_only(_)
has_all_flags_only(names) ==
    IF names = <<>> THEN TRUE
    ELSE IF has_flag(Head(names)) THEN has_all_flags_only(Tail(names))
    ELSE FALSE

RECURSIVE has_all(_)
has_all(names) ==
    IF names = <<>> THEN TRUE
    ELSE IF has_flag(Head(names)) THEN has_all(Tail(names))
    ELSE IF has_option(Head(names)) THEN has_all(Tail(names))
    ELSE FALSE

\* the module-level command(strip=True), lines 122-123
module_command(strip) == get_command

----
(* The calls explored. *)

QueryNames == { Str("a"), Str("b") }
NameLists == UNION { [1..n -> QueryNames] : n \in 0..MaxNames }
Defaults == { None, Str("a") }
NotSupplied == [supplied |-> FALSE, list |-> <<>>]
Supplied(lst) == [supplied |-> TRUE, list |-> lst]
ValueLists == { NotSupplied, Supplied(<<>>), Supplied(<<Str("b"), None>>) }
Casts == { "identity", "str" }
Indices == (0 - MaxIndex)..MaxIndex

\* a call from the program that uses the module: nothing but the result
\* and the caller's position changes
Call(op, args, r) ==
    /\ pc = "ready"
    /\ result' = [op |-> op, args |-> args, outcome |-> r.outcome, value |-> r.value]
    /\ pc' = IF r.outcome = "return" THEN "returned" ELSE "raised"
    /\ UNCHANGED <<argv, arguments, command, flags, options, positional, i, test>>

GetCommand == Call("get_command", <<>>, Return(get_command))

GetFlags == Call("get_flags", <<>>, Return(get_flags))

GetPositional == Call("get_positional", <<>>, Return(get_positional))

HasFlag == \E name \in QueryNames : Call("has_flag", <<name>>, Return(has_flag(name)))

GetFlag ==
    \E name \in QueryNames, yes \in BOOLEAN :
        Call("get_flag", <<name, yes, ~yes>>, Return(get_flag(name, yes, ~yes)))

HasOption ==
    \E name \in QueryNames : Call("has_option", <<name>>, Return(has_option(name)))

GetOption ==
    \E name \in QueryNames, default \in Defaults, values \in ValueLists, cast \in Casts :
        Call("get_option",
             [name |-> name, default |-> default, values |-> values, cast |-> cast],
             get_option(name, default, values, cast))

GetOptions == Call("get_options", <<>>, Return(get_options))

\* get_index by positional.pop(index): the argument returned is removed
GetIndexPop ==
    /\ pc = "ready"
    /\ \E index \in Indices :
         LET r == get_index(index)
             n == Len(positional)
             k == IF index < 0 THEN index + n ELSE index
         IN /\ result' = [op |-> "get_index", args |-> <<index>>,
                          outcome |-> r.outcome, value |-> r.value]
            /\ pc' = IF r.outcome = "return" THEN "returned" ELSE "raised"
            /\ positional' = IF r.outcome = "return"
                             THEN SubSeq(positional, 1, k) \o SubSeq(positional, k + 2, n)
                             ELSE positional
    /\ UNCHANGED <<argv, arguments, command, flags, options, i, test>>

GetIndex == \E index \in Indices : Call("get_index", <<index>>, get_index(index))

HasAny == \E names \in NameLists : Call("has_any", names, Return(has_any(names)))

HasAll == \E names \in NameLists : Call("has_all", names, Return(has_all(names)))

ModuleCommand ==
    \E strip \in BOOLEAN : Call("command", <<strip>>, Return(module_command(strip)))

\* the caller takes the returned value, or handles the exception, and goes on
Resume ==
    /\ pc \in {"returned", "raised"}
    /\ pc' = "ready"
    /\ result' = NoResult
    /\ UNCHANGED <<argv, arguments, command, flags, options, positional, i, test>>

Query ==
    \/ GetCommand \/ GetFlags \/ GetPositional \/ HasFlag \/ GetFlag \/ HasOption
    \/ GetOption \/ GetOptions \/ GetIndex \/ HasAny \/ HasAll \/ ModuleCommand

----
(* The self-test, lines 143-203. *)

\* the orders random.shuffle can leave a list in
Shuffles(lst) ==
    { [k \in 1..Len(lst) |-> lst[p[k]]] : p \in Permutations(1..Len(lst)) }

\* the orders of the keys of a dictionary
KeyLists(d) ==
    { ks \in [1..Cardinality(DOMAIN d) -> DOMAIN d] :
        \A j, k \in 1..Cardinality(DOMAIN d) : j # k => ks[j] # ks[k] }

\* the truth value Python gives a string or None
Truthy(x) == x # None /\ x # <<>>

\* lines 150-165: the argument list check_arguments builds
BuildArguments(cmd, pos, fl, names, opts) ==
    <<cmd>> \o pos
    \o [k \in 1..Len(fl) |-> <<"-">> \o fl[k]]
    \o [k \in 1..Len(names) |->
          <<"-", "-">> \o names[k]
          \o (IF Truthy(opts[names[k]]) THEN <<"=">> \o opts[names[k]] ELSE <<>>)]

TestPositionals == { Str("a"), Str("b") }
TestFlags == { Str("a"), Str("b") }
TestNames == { Str("a"), Str("b") }
\* an option's value: absent, the empty string, or a non-empty string
TestValues == { None, <<>>, Str("b"), <<"=", "a">> }
TestOptions == UNION { [ns -> TestValues] : ns \in SUBSET TestNames }

\* a call check_arguments(command, positional, flags, options), up to the
\* construction of its parser in line 170
check_arguments ==
    /\ pc = "main"
    /\ \E cmd \in Commands,
          pos \in UNION { [1..n -> TestPositionals] : n \in 0..MaxTest },
          fl0 \in UNION { [1..n -> TestFlags] : n \in 0..MaxTest },
          opts \in TestOptions :
         \E fl \in Shuffles(fl0), names \in KeyLists(opts) :
            /\ test' = [active |-> TRUE, command |-> cmd, positional |-> pos,
                        flags |-> fl, options |-> opts]
            /\ argv' = BuildArguments(cmd, pos, fl, names, opts)
            /\ Begin(BuildArguments(cmd, pos, fl, names, opts))
    /\ UNCHANGED result

InitTest ==
    /\ argv = <<>>
    /\ arguments = <<>>
    /\ command = None
    /\ flags = <<>>
    /\ options = EmptyDict
    /\ positional = <<>>
    /\ i = 1
    /\ pc = "main"
    /\ test = NoTest
    /\ result = NoResult

Next == parser \/ Classify \/ Query \/ Resume

Spec == Init /\ [][Next]_vars

NextTest == check_arguments \/ Classify \/ Query \/ Resume

SpecTest == InitTest /\ [][NextTest]_vars
----
(* Properties. *)

IsFlagToken(t) == flag_pattern(t).matched
IsOptionToken(t) == ~IsFlagToken(t) /\ option_pattern(t).matched
IsPositionalToken(t) == ~IsFlagToken(t) /\ ~option_pattern(t).matched

constructed == pc \in {"ready", "returned", "raised"}

\* C1: every step of the construction loop puts the argument token it looks
\* at into exactly one collection, the flag pattern tried first, then the
\* option pattern, then positional: a token the flag pattern matches adds to
\* the flag sequence and leaves the other two alone; otherwise a token the
\* option pattern matches sets one entry of the option mapping and leaves the
\* other two alone; otherwise the token is appended verbatim to the
\* positional sequence and the other two are left alone.
C1_ExactlyOneCollection ==
    [][pc = "loop" =>
        LET t == arguments[i] IN
        IF IsFlagToken(t)
        THEN /\ Len(flags') > Len(flags)
             /\ SubSeq(flags', 1, Len(flags)) = flags
             /\ options' = options /\ positional' = positional
        ELSE IF option_pattern(t).matched
        THEN /\ \E n \in DOMAIN options' :
                  /\ DOMAIN options' = DOMAIN options \cup {n}
                  /\ \A m \in DOMAIN options : m # n => options'[m] = options[m]
             /\ flags' = flags /\ positional' = positional
        ELSE /\ positional' = Append(positional, t)
             /\ flags' = flags /\ options' = options
    ]_vars

\* C1 witness: construction is over for two argument tokens, of which one set
\* an option and the other became positional, and no flag was added
C1_Witness ==
    /\ pc = "ready" /\ Len(arguments) = 2
    /\ IsOptionToken(arguments[1]) /\ IsPositionalToken(arguments[2])
    /\ Cardinality(DOMAIN options) = 1 /\ Len(positional) = 1 /\ flags = <<>>

\* the characters of the runs of the flag tokens "-" + run among toks, in order
RECURSIVE FlagCharacters(_)
FlagCharacters(toks) ==
    IF toks = <<>> THEN <<>>
    ELSE LET t == Head(toks)
             run == flag_pattern(t).groups[1]
         IN (IF IsFlagToken(t) /\ Len(t) = 1 + Len(run)
             THEN [k \in 1..Len(run) |-> Str(run[k])]
             ELSE <<>>) \o FlagCharacters(Tail(toks))

OnlyPlainFlagTokens ==
    \A k \in 1..Len(arguments) :
        IsFlagToken(arguments[k])
        /\ Len(arguments[k]) = 1 + Len(flag_pattern(arguments[k]).groups[1])

\* C2: when every argument is a flag token of one dash and a run of k >= 1
\* word characters, the flag sequence after construction holds the characters
\* of the runs, one single-character flag each, in left-to-right order, and
\* has_flag(c) is true for each of these characters.
C2_OneFlagPerCharacter ==
    (pc = "ready" /\ OnlyPlainFlagTokens) =>
        /\ flags = FlagCharacters(arguments)
        /\ \A k \in 1..Len(FlagCharacters(arguments)) :
              has_flag(FlagCharacters(arguments)[k])

\* C3: after the construction check_arguments starts from the token vector
\* it built, get_command() is the chosen command, get_index(k) is the k-th
\* chosen positional, has_flag(c) is true for every chosen flag c, and for
\* every chosen option name has_option(name) is true and get_option(name) is
\* the chosen value: absent for an absent value, the empty string for an
\* empty string.
C3_RoundTrip ==
    (pc = "ready" /\ test.active) =>
        /\ get_command = test.command
        /\ \A k \in 1..Len(test.positional) :
              get_index(k - 1) = Return(test.positional[k])
        /\ \A k \in 1..Len(test.flags) : has_flag(test.flags[k])
        /\ \A name \in DOMAIN test.options :
              /\ has_option(name)
              /\ get_option(name, None, NotSupplied, "identity")
                    = Return(test.options[name])

\* the raw value of a get_option call: the stored value, else the first of
\* the supplied values, else the default
Raw(a) ==
    IF a.name \in DOMAIN options THEN options[a.name]
    ELSE IF a.values.supplied THEN a.values.list[1]
    ELSE a.default

\* C4: a get_option call that returns, returns cast(raw), raw being the value
\* stored for the name if the name is a key of the option mapping, else the
\* first element of values if values is supplied, else default; a call
\* without values always returns, so for an absent name it returns
\* cast(default).
C4_GetOptionValue ==
    result.op = "get_option" =>
        /\ ~result.args.values.supplied => result.outcome = "return"
        /\ result.outcome = "return" =>
              /\ result.args.values.supplied => result.args.values.list # <<>>
              /\ result.value = Cast(result.args.cast, Raw(result.args))

\* C4 witness: get_option returned the cast of the first supplied value for a
\* name that is no key, although another default was passed
C4_Witness ==
    /\ result.op = "get_option" /\ result.outcome = "return"
    /\ result.args.name \notin DOMAIN options /\ DOMAIN options # {}
    /\ result.args.values.supplied
    /\ result.args.default # result.args.values.list[1]
    /\ result.value = result.args.values.list[1]

\* C5 as claimed: a get_option call with values supplied either returns a
\* member of values or fails with an assertion failure and no value.
C5_AssertionOrMember ==
    (result.op = "get_option" /\ result.args.values.supplied) =>
        \/ result.outcome = "return" /\ In(result.value, result.args.values.list)
        \/ result.outcome = "AssertionError" /\ result.value = NoValue

\* C5: a get_option call with a non-empty values returns the cast result if
\* it is a member of values and otherwise fails with an assertion failure
\* and no value; a call with an empty values fails with an IndexError and no
\* value; in each case the command name, the flags, the options and the
\* positional arguments are left as they were.
C5_SuppliedValues ==
    [][(pc = "ready" /\ result'.op = "get_option" /\ result'.args.values.supplied) =>
        /\ collections' = collections
        /\ IF result'.args.values.list = <<>>
           THEN result'.outcome = "IndexError" /\ result'.value = NoValue
           ELSE LET value == Cast(result'.args.cast, Raw(result'.args)) IN
                IF In(value, result'.args.values.list)
                THEN result'.outcome = "return" /\ result'.value = value
                ELSE result'.outcome = "AssertionError" /\ result'.value = NoValue
    ]_vars

\* C5 witness: a get_option call with non-empty values failed its assertion
\* on a stored value that is not among the values
C5_Witness ==
    /\ pc = "raised" /\ result.op = "get_option"
    /\ result.outcome = "AssertionError"
    /\ result.args.name \in DOMAIN options
    /\ result.args.values.list # <<>>

\* name is a member of the flag sequence or a key of the option mapping
Present(name) ==
    \/ \E k \in 1..Len(flags) : flags[k] = name
    \/ name \in DOMAIN options

\* C6: has_any(*names) is true exactly if some name of the list is a member
\* of the flag sequence or a key of the option mapping, and has_all(*names)
\* exactly if every name of the list is; the empty list included.
C6_AnyAll ==
    /\ result.op = "has_any" =>
          /\ result.outcome = "return"
          /\ result.value = (\E k \in 1..Len(result.args) : Present(result.args[k]))
    /\ result.op = "has_all" =>
          /\ result.outcome = "return"
          /\ result.value = (\A k \in 1..Len(result.args) : Present(result.args[k]))

\* C6 witness: has_any returned true for two names of which the first is
\* absent and the second is present as an option key only
C6_Witness ==
    /\ result.op = "has_any" /\ result.value = TRUE
    /\ Len(result.args) = 2
    /\ ~Present(result.args[1])
    /\ result.args[2] \in DOMAIN options /\ ~has_flag(result.args[2])

\* C7: get_index(k) for k = 0, ..., n-1 returns the k-th, counted from 0, of
\* the argument tokens that are neither flag nor option tokens, in their
\* order on the command line and with duplicates kept, n being their number.
C7_PositionalOrder ==
    (result.op = "get_index"
        /\ result.args[1] >= 0
        /\ result.args[1] < Len(SelectSeq(arguments, IsPositionalToken))) =>
        /\ result.outcome = "return"
        /\ result.value = SelectSeq(arguments, IsPositionalToken)[result.args[1] + 1]

\* C7 witness: get_index(1) returned the third of three argument tokens, the
\* second being a flag token between two different positional arguments
C7_Witness ==
    /\ result.op = "get_index" /\ result.args[1] = 1 /\ result.outcome = "return"
    /\ Len(arguments) = 3
    /\ IsPositionalToken(arguments[1]) /\ IsFlagToken(arguments[2])
    /\ IsPositionalToken(arguments[3]) /\ arguments[1] # arguments[3]
    /\ result.value = arguments[3]

\* C8 as claimed: get_index(k) with k outside 0..n-1 fails with an IndexError
\* and no value, n being the number of positional arguments.
C8_OutsideZeroToN ==
    (result.op = "get_index"
        /\ (result.args[1] < 0 \/ result.args[1] >= Len(positional))) =>
        result.outcome = "IndexError" /\ result.value = NoValue

\* C8: get_index(k) with k >= n or k < -n fails with an IndexError and no
\* value, and with -n <= k <= -1 it returns the positional argument at
\* position n + k; in each case the command name, the flags, the options and
\* the positional arguments are left as they were.
C8_IndexError ==
    [][(pc = "ready" /\ result'.op = "get_index") =>
        LET k == result'.args[1]
            n == Len(positional)
        IN /\ collections' = collections
           /\ (k >= n \/ k < 0 - n) =>
                 result'.outcome = "IndexError" /\ result'.value = NoValue
           /\ (0 - n <= k /\ k <= 0 - 1) =>
                 result'.outcome = "return" /\ result'.value = positional[n + k + 1]
    ]_vars

\* C8 witness: get_index failed with an IndexError on a positional sequence
\* that is not empty
C8_Witness ==
    /\ pc = "raised" /\ result.op = "get_index" /\ result.outcome = "IndexError"
    /\ Len(positional) >= 1

\* C9: once construction is over, no step changes the command name, the flag
\* sequence, the option mapping or the positional sequence, whether the
\* query it makes returns or raises.
C9_QueriesChangeNothing ==
    [][constructed => collections' = collections]_vars

\* C9 witness: a query has raised on a parser holding a flag and a
\* positional argument
C9_Witness ==
    /\ pc = "raised" /\ Len(flags) >= 1 /\ Len(positional) >= 1

\* the part of a path after its last "/"
RECURSIVE Basename(_)
Basename(path) ==
    IF \A k \in 1..Len(path) : path[k] # "/" THEN path
    ELSE Basename(Tail(path))

\* C10: command() returns the stored command name, and in strip mode only
\* its final path segment.
C10_CommandStrip ==
    result.op = "command" =>
        /\ result.outcome = "return"
        /\ result.value = IF result.args[1] THEN Basename(command) ELSE command
====
